---- MODULE Spec2Model ----
(***************************************************************************)
(* Opportunity detection and alert scheduling of textinvestment.           *)
(*                                                                         *)
(* Numbers.  Fractions (drop from high, ROE, profit margin, the drop and   *)
(* ROE thresholds, debt/equity) are carried in hundredths: 0.10 is 10,     *)
(* 1.5 is 150.  Prices and P/E ratios are whole numbers.  A nullable       *)
(* column is the empty tuple (None) or a one-element tuple (Some(v)).      *)
(***************************************************************************)
EXTENDS Integers, Sequences, FiniteSets, TLC

VARIABLES
    users,      \* users joined with user_preferences, by user id
    cache,      \* stocks_cache: one row per ticker, or no row
    alerts,     \* the alerts table, in insertion order
    outbox,     \* every text handed to SMSService.send_sms / send_alert
    now,        \* datetime.utcnow(), in hours
    probe       \* the benches: the inputs and the results of the last call

vars == <<users, cache, alerts, outbox, now, probe>>

None == << >>
Some(v) == <<v>>
IsNone(x) == x = None
Val(x) == x[1]
\* Python truthiness of an Optional[float]: None and 0.0 are both falsy.
Truthy(x) == x # None /\ Val(x) # 0

-----------------------------------------------------------------------------
(* app/analysis/defaults.py and app/web/routes.py: thresholds               *)

BUFFETT_DEFAULTS ==
    [min_drop_threshold |-> 10, min_weekly_drop |-> 5, max_pe |-> 25,
     max_debt_equity |-> 150, min_roe |-> 15,
     prefer_stocks_over_etfs |-> FALSE, etf_min_drop |-> 10]

STRATEGY_PRESETS ==
    [value    |-> [min_drop_threshold |-> 10, max_pe |-> 25,
                   max_debt_equity |-> 150, min_roe |-> 15,
                   prefer_stocks_over_etfs |-> TRUE],
     growth   |-> [min_drop_threshold |-> 15, max_pe |-> 50,
                   max_debt_equity |-> 200, min_roe |-> 10,
                   prefer_stocks_over_etfs |-> TRUE],
     dividend |-> [min_drop_threshold |-> 8, max_pe |-> 20,
                   max_debt_equity |-> 100, min_roe |-> 12,
                   prefer_stocks_over_etfs |-> TRUE]]

\* The UserPreferences row written by signup_submit: Buffett defaults, the
\* column default for etf_min_drop (0.15), corrections-only, not paused.
SignupPrefs ==
    [alert_frequency |-> "corrections",
     favorite_industries |-> {},
     is_paused |-> FALSE,
     investment_types |-> {"Stocks", "ETFs", "Commodities", "Crypto"},
     min_drop_threshold |-> BUFFETT_DEFAULTS.min_drop_threshold,
     max_pe |-> BUFFETT_DEFAULTS.max_pe,
     max_debt_equity |-> BUFFETT_DEFAULTS.max_debt_equity,
     min_roe |-> BUFFETT_DEFAULTS.min_roe,
     prefer_stocks_over_etfs |-> BUFFETT_DEFAULTS.prefer_stocks_over_etfs,
     etf_min_drop |-> 15]

\* settings_submit: a percentage typed as a whole number (> 1) is divided by
\* 100, anything else is stored as typed.  Form values are in hundredths.
PercentOrFraction(v) == IF v > 100 THEN v \div 100 ELSE v

settings_submit(prefs, form) ==
    [prefs EXCEPT
        !.alert_frequency = form.alert_frequency,
        !.favorite_industries = form.industries,
        !.min_drop_threshold = PercentOrFraction(form.min_drop_threshold),
        !.max_pe = form.max_pe,
        !.max_debt_equity = form.max_debt_equity,
        !.min_roe = PercentOrFraction(form.min_roe),
        !.prefer_stocks_over_etfs = form.prefer_stocks,
        !.is_paused = form.is_paused]

onboarding_submit(prefs, strategy, industries, alert_frequency) ==
    LET preset == STRATEGY_PRESETS[strategy] IN
    [prefs EXCEPT
        !.min_drop_threshold = preset.min_drop_threshold,
        !.max_pe = preset.max_pe,
        !.max_debt_equity = preset.max_debt_equity,
        !.min_roe = preset.min_roe,
        !.prefer_stocks_over_etfs = preset.prefer_stocks_over_etfs,
        !.favorite_industries = industries,
        !.alert_frequency = alert_frequency]

-----------------------------------------------------------------------------
(* app/analysis/stock_scorer.py                                            *)

\* (high - price) / high, in hundredths.  Every 52-week high the model
\* quotes is 100, so the quotient is exact.
drop_from_high(stock) ==
    ((Val(stock.fifty_two_week_high) - Val(stock.last_price)) * 100)
        \div Val(stock.fifty_two_week_high)

NoPoints == [points |-> 0, reasons |-> << >>]
Award(p, r) == [points |-> p, reasons |-> <<r>>]

DropBucket(stock, prefs) ==
    IF Truthy(stock.fifty_two_week_high) /\ Truthy(stock.last_price)
    THEN LET drop == drop_from_high(stock) IN
         IF drop >= 30 THEN Award(30, "drop_significant")
         ELSE IF drop >= 20 THEN Award(25, "drop_good")
         ELSE IF drop >= prefs.min_drop_threshold THEN Award(15, "drop")
         ELSE NoPoints
    ELSE NoPoints

PEBucket(stock, prefs) ==
    IF ~IsNone(stock.pe_ratio)
    THEN LET pe == Val(stock.pe_ratio) IN
         IF pe < 10 THEN Award(20, "pe_very_low")
         ELSE IF pe < 15 THEN Award(15, "pe_low")
         ELSE IF pe <= prefs.max_pe THEN Award(10, "pe_reasonable")
         ELSE NoPoints
    ELSE NoPoints

DebtBucket(stock, prefs) ==
    IF ~IsNone(stock.debt_to_equity)
    THEN LET de == Val(stock.debt_to_equity) IN
         IF de < 50 THEN Award(15, "debt_very_low")
         ELSE IF de < 100 THEN Award(10, "debt_low")
         ELSE IF de <= prefs.max_debt_equity THEN Award(5, "debt_manageable")
         ELSE NoPoints
    ELSE NoPoints

ROEBucket(stock, prefs) ==
    IF ~IsNone(stock.roe)
    THEN LET roe == Val(stock.roe) IN
         IF roe >= 25 THEN Award(20, "roe_excellent")
         ELSE IF roe >= 20 THEN Award(15, "roe_strong")
         ELSE IF roe >= prefs.min_roe THEN Award(10, "roe_good")
         ELSE NoPoints
    ELSE NoPoints

MarginBucket(stock) ==
    IF ~IsNone(stock.profit_margin)
    THEN LET pm == Val(stock.profit_margin) IN
         IF pm >= 20 THEN Award(15, "margin_high")
         ELSE IF pm >= 10 THEN Award(10, "margin_solid")
         ELSE IF pm >= 5 THEN Award(5, "margin_positive")
         ELSE NoPoints
    ELSE NoPoints

\* A score whose reasons come out in the opposite bucket order.
calculate_score_reversed(stock, prefs) ==
    LET d == DropBucket(stock, prefs)
        p == PEBucket(stock, prefs)
        e == DebtBucket(stock, prefs)
        r == ROEBucket(stock, prefs)
        m == MarginBucket(stock)
    IN [score |-> d.points + p.points + e.points + r.points + m.points,
        reasons |-> m.reasons \o r.reasons \o e.reasons \o p.reasons \o d.reasons]

calculate_score(stock, prefs) ==
    LET d == DropBucket(stock, prefs)
        p == PEBucket(stock, prefs)
        e == DebtBucket(stock, prefs)
        r == ROEBucket(stock, prefs)
        m == MarginBucket(stock)
    IN [score |-> d.points + p.points + e.points + r.points + m.points,
        reasons |-> d.reasons \o p.reasons \o e.reasons \o r.reasons \o m.reasons]

\* A filter that leaves out the test of the drop against the threshold.
meets_criteria_without_drop(stock, prefs) ==
    IF ~Truthy(stock.last_price) \/ ~Truthy(stock.fifty_two_week_high)
    THEN [passes |-> FALSE, drop |-> 0]
    ELSE LET drop == drop_from_high(stock) IN
         IF ~IsNone(stock.pe_ratio) /\ Val(stock.pe_ratio) > prefs.max_pe
         THEN [passes |-> FALSE, drop |-> drop]
         ELSE IF ~IsNone(stock.debt_to_equity)
                 /\ Val(stock.debt_to_equity) > prefs.max_debt_equity
         THEN [passes |-> FALSE, drop |-> drop]
         ELSE IF ~IsNone(stock.roe) /\ Val(stock.roe) < prefs.min_roe
         THEN [passes |-> FALSE, drop |-> drop]
         ELSE [passes |-> TRUE, drop |-> drop]

meets_criteria(stock, prefs) ==
    IF ~Truthy(stock.last_price) \/ ~Truthy(stock.fifty_two_week_high)
    THEN [passes |-> FALSE, drop |-> 0]
    ELSE LET drop == drop_from_high(stock) IN
         IF drop < prefs.min_drop_threshold
         THEN [passes |-> FALSE, drop |-> drop]
         ELSE IF ~IsNone(stock.pe_ratio) /\ Val(stock.pe_ratio) > prefs.max_pe
         THEN [passes |-> FALSE, drop |-> drop]
         ELSE IF ~IsNone(stock.debt_to_equity)
                 /\ Val(stock.debt_to_equity) > prefs.max_debt_equity
         THEN [passes |-> FALSE, drop |-> drop]
         ELSE IF ~IsNone(stock.roe) /\ Val(stock.roe) < prefs.min_roe
         THEN [passes |-> FALSE, drop |-> drop]
         ELSE [passes |-> TRUE, drop |-> drop]

-----------------------------------------------------------------------------
(* app/analysis/defaults.py: the ticker catalogue, cut down to a few       *)
(* tickers of each class.  CacheOrder is the order in which a query over   *)
(* stocks_cache returns its rows (primary-key order).                      *)

STOCKS_BY_SECTOR ==
    [Technology |-> {"AAPL", "MSFT", "NVDA"},
     Healthcare |-> {"JNJ", "PFE", "UNH"}]
MAJOR_ETFS == {"SPY"}
COMMODITIES == {"GLD"}
CRYPTO == {"BTC-USD"}
INDUSTRIES == {"Technology", "Healthcare"}
INVESTMENT_TYPES == {"Stocks", "ETFs", "Commodities", "Crypto"}

CacheOrder ==
    <<"AAPL", "BTC-USD", "GLD", "JNJ", "MSFT", "NVDA", "PFE", "SPY", "UNH">>
Tickers == {CacheOrder[i] : i \in 1..Len(CacheOrder)}

get_all_stocks == UNION {STOCKS_BY_SECTOR[s] : s \in DOMAIN STOCKS_BY_SECTOR}

get_tickers_by_investment_type(investment_type) ==
    CASE investment_type = "Stocks" -> get_all_stocks
      [] investment_type = "ETFs" -> MAJOR_ETFS
      [] investment_type = "Commodities" -> COMMODITIES
      [] investment_type = "Crypto" -> CRYPTO
      [] OTHER -> {}

get_tickers_for_investment_types(investment_types) ==
    UNION {get_tickers_by_investment_type(t) : t \in investment_types}

get_stocks_for_industries(industries) ==
    UNION {STOCKS_BY_SECTOR[i] : i \in industries \cap DOMAIN STOCKS_BY_SECTOR}

-----------------------------------------------------------------------------
(* app/analysis/dip_detector.py                                            *)

NoRow == [ticker |-> "none"]
HasRow(c, t) == c[t] # NoRow

\* A universe that takes every stock whatever the favourite industries are.
tickers_ignoring_industries(prefs) ==
    LET investment_types ==
            IF prefs.investment_types # {} THEN prefs.investment_types
            ELSE INVESTMENT_TYPES
        allowed == get_tickers_for_investment_types(investment_types)
    IN IF allowed = {} THEN get_all_stocks ELSE allowed

\* The ticker universe find_opportunities scans for one preference row.
tickers_to_scan(prefs) ==
    LET investment_types ==
            IF prefs.investment_types # {} THEN prefs.investment_types
            ELSE INVESTMENT_TYPES
        allowed0 == get_tickers_for_investment_types(investment_types)
        allowed1 ==
            IF "Stocks" \in investment_types /\ prefs.favorite_industries # {}
            THEN (allowed0 \ get_tickers_for_investment_types({"Stocks"}))
                    \cup get_stocks_for_industries(prefs.favorite_industries)
            ELSE allowed0
        allowed2 ==
            IF "ETFs" \in investment_types /\ prefs.prefer_stocks_over_etfs
            THEN allowed1
            ELSE IF "ETFs" \notin investment_types THEN allowed1 \ MAJOR_ETFS
            ELSE allowed1
    IN IF allowed2 = {} THEN get_all_stocks ELSE allowed2

\* db.query(StocksCache).filter(ticker.in_(tickers_to_scan)).all()
QueryStocks(c, tickers) ==
    SelectSeq([i \in 1..Len(CacheOrder) |-> c[CacheOrder[i]]],
              LAMBDA row : row # NoRow /\ row.ticker \in tickers)

\* A scan iteration without the stricter threshold for ETFs.
ScanOneWithoutEtfRule(stock, prefs) ==
    LET mc == meets_criteria(stock, prefs)
        sc == calculate_score(stock, prefs)
    IN IF ~mc.passes THEN << >>
       ELSE << [stock |-> stock, ticker |-> stock.ticker, score |-> sc.score,
                drop_from_high |-> mc.drop, reasons |-> sc.reasons] >>

\* One iteration of the scan loop: an Opportunity, or nothing.  The call at
\* dip_detector.py:95 hands meets_criteria a third positional argument
\* (min_weekly_drop); stock_scorer.meets_criteria declares two parameters and
\* has no weekly filter.  The eligibility decision taken here is the one
\* stock_scorer.py defines.
ScanOne(stock, prefs) ==
    LET mc == meets_criteria(stock, prefs)
        is_etf == stock.ticker \in MAJOR_ETFS
        sc == calculate_score(stock, prefs)
    IN IF ~mc.passes THEN << >>
       ELSE IF is_etf /\ prefs.prefer_stocks_over_etfs
               /\ mc.drop < prefs.etf_min_drop THEN << >>
       ELSE << [stock |-> stock, ticker |-> stock.ticker, score |-> sc.score,
                drop_from_high |-> mc.drop, reasons |-> sc.reasons] >>

RECURSIVE ScanAll(_, _)
ScanAll(stocks, prefs) ==
    IF stocks = << >> THEN << >>
    ELSE ScanOne(Head(stocks), prefs) \o ScanAll(Tail(stocks), prefs)

\* An insertion that places an opportunity before those of equal score.
RECURSIVE InsertBeforeEqual(_, _)
InsertBeforeEqual(sorted, o) ==
    IF sorted = << >> THEN <<o>>
    ELSE IF Head(sorted).score > o.score
         THEN <<Head(sorted)>> \o InsertBeforeEqual(Tail(sorted), o)
         ELSE <<o>> \o sorted

\* sorted(key=score, reverse=True): stable, equal scores keep their order.
RECURSIVE InsertByScore(_, _)
InsertByScore(sorted, o) ==
    IF sorted = << >> THEN <<o>>
    ELSE IF Head(sorted).score >= o.score
         THEN <<Head(sorted)>> \o InsertByScore(Tail(sorted), o)
         ELSE <<o>> \o sorted

RECURSIVE SortByScore(_)
SortByScore(opps) ==
    IF opps = << >> THEN << >>
    ELSE InsertByScore(SortByScore(SubSeq(opps, 1, Len(opps) - 1)),
                       opps[Len(opps)])

find_opportunities(c, prefs) ==
    SortByScore(ScanAll(QueryStocks(c, tickers_to_scan(prefs)), prefs))

\* The loop as written: meets_criteria(stock, prefs, min_weekly_drop) gives
\* three positional arguments to a function of two parameters, so the first
\* iteration raises TypeError; with no row to iterate the list is returned.
find_opportunities_raises(c, prefs) ==
    QueryStocks(c, tickers_to_scan(prefs)) # << >>

find_top_opportunities(c, prefs, limit) ==
    LET all == find_opportunities(c, prefs)
    IN SubSeq(all, 1, IF Len(all) < limit THEN Len(all) ELSE limit)

-----------------------------------------------------------------------------
(* app/services/market_data.py                                             *)

\* yfinance reports debt/equity as a percentage; values above 10 are divided
\* by 100 (hundredths: above 1000).
_convert_debt_equity(value) ==
    IF IsNone(value) THEN None
    ELSE IF Val(value) > 1000 THEN Some(Val(value) \div 100) ELSE value

\* None or a truthy left operand: Python's `a or b` over Optional[float].
OrElse(a, b) == IF Truthy(a) THEN a ELSE b

\* _calculate_weekly_change: None without a current price, else the change
\* the price history gives (None when the history is too short).
_calculate_weekly_change(answer, current_price) ==
    IF ~Truthy(current_price) THEN None ELSE answer.weekly_change

NoData == [ticker |-> "none"]

\* get_stock_data over what the provider answered for the ticker:
\*   kind "error": the request raised;  kind "fast": info lacks currentPrice;
\*   kind "info": info carries currentPrice.
get_stock_data(ticker, answer) ==
    CASE answer.kind = "error" -> NoData
      [] answer.kind = "fast" ->
            IF Truthy(answer.last_price)
            THEN [ticker |-> ticker,
                  price |-> answer.last_price,
                  weekly_change |->
                      _calculate_weekly_change(answer, answer.last_price),
                  pe_ratio |-> None, roe |-> None, debt_to_equity |-> None,
                  profit_margin |-> None,
                  fifty_two_week_high |-> answer.year_high]
            ELSE NoData
      [] answer.kind = "info" ->
            LET current_price ==
                    OrElse(answer.currentPrice, answer.regularMarketPrice)
            IN [ticker |-> ticker,
                price |-> current_price,
                weekly_change |->
                    _calculate_weekly_change(answer, current_price),
                pe_ratio |-> answer.trailingPE,
                roe |-> answer.returnOnEquity,
                debt_to_equity |-> _convert_debt_equity(answer.debtToEquity),
                profit_margin |-> answer.profitMargins,
                fifty_two_week_high |-> answer.fiftyTwoWeekHigh]

\* An update that stamps the row it found even when the provider gave nothing.
update_stock_cache_touching(c, ticker, answer, t) ==
    LET data == get_stock_data(ticker, answer) IN
    IF data = NoData
    THEN IF c[ticker] = NoRow THEN c
         ELSE [c EXCEPT ![ticker].last_updated = t]
    ELSE [c EXCEPT ![ticker] =
            [ticker |-> ticker,
             last_price |-> data.price,
             weekly_change |-> data.weekly_change,
             pe_ratio |-> data.pe_ratio,
             roe |-> data.roe,
             debt_to_equity |-> data.debt_to_equity,
             profit_margin |-> data.profit_margin,
             fifty_two_week_high |-> data.fifty_two_week_high,
             last_updated |-> t]]

\* An update that keeps the stored value of a field the response omits.
update_stock_cache_keeping(c, ticker, answer, t) ==
    LET data == get_stock_data(ticker, answer)
        Kept(field, new) ==
            IF IsNone(new) /\ c[ticker] # NoRow THEN c[ticker][field] ELSE new
    IN IF data = NoData THEN c
       ELSE [c EXCEPT ![ticker] =
               [ticker |-> ticker,
                last_price |-> data.price,
                weekly_change |-> data.weekly_change,
                pe_ratio |-> Kept("pe_ratio", data.pe_ratio),
                roe |-> Kept("roe", data.roe),
                debt_to_equity |-> Kept("debt_to_equity", data.debt_to_equity),
                profit_margin |-> Kept("profit_margin", data.profit_margin),
                fifty_two_week_high |-> data.fifty_two_week_high,
                last_updated |-> t]]

\* update_stock_cache: the row written for `ticker`, or the cache unchanged
\* when get_stock_data returned nothing.
update_stock_cache(c, ticker, answer, t) ==
    LET data == get_stock_data(ticker, answer) IN
    IF data = NoData THEN c
    ELSE [c EXCEPT ![ticker] =
            [ticker |-> ticker,
             last_price |-> data.price,
             weekly_change |-> data.weekly_change,
             pe_ratio |-> data.pe_ratio,
             roe |-> data.roe,
             debt_to_equity |-> data.debt_to_equity,
             profit_margin |-> data.profit_margin,
             fifty_two_week_high |-> data.fifty_two_week_high,
             last_updated |-> t]]

\* A staleness test that also takes a snapshot exactly max_age_hours old.
IsStaleAtCutoff(c, ticker, t, max_age_hours) ==
    c[ticker] = NoRow \/ c[ticker].last_updated <= t - max_age_hours

IsStale(c, ticker, t, max_age_hours) ==
    c[ticker] = NoRow \/ c[ticker].last_updated < t - max_age_hours

\* refresh_stale_stocks over the requested tickers, in list order; `answers`
\* gives the provider's answer per ticker.
RECURSIVE refresh_stale_stocks(_, _, _, _, _)
refresh_stale_stocks(c, tickers, answers, t, max_age_hours) ==
    IF tickers = << >> THEN c
    ELSE LET ticker == Head(tickers)
             c1 == IF IsStale(c, ticker, t, max_age_hours)
                   THEN update_stock_cache(c, ticker, answers[ticker], t)
                   ELSE c
         IN refresh_stale_stocks(c1, Tail(tickers), answers, t, max_age_hours)

\* The same loop with what it asks of the provider and what it returns:
\* `calls` are the tickers get_stock_data was called for, `updated` the
\* tickers of the rows the method returns.
NoRun(c) == [cache |-> c, calls |-> << >>, updated |-> << >>]

RefreshOne(run, ticker, answers, t) ==
    [cache |-> update_stock_cache(run.cache, ticker, answers[ticker], t),
     calls |-> Append(run.calls, ticker),
     updated |-> IF get_stock_data(ticker, answers[ticker]) = NoData
                 THEN run.updated ELSE Append(run.updated, ticker)]

RECURSIVE refresh_stale_stocks_run(_, _, _, _, _)
refresh_stale_stocks_run(run, tickers, answers, t, max_age_hours) ==
    IF tickers = << >> THEN run
    ELSE refresh_stale_stocks_run(
            IF IsStale(run.cache, Head(tickers), t, max_age_hours)
            THEN RefreshOne(run, Head(tickers), answers, t) ELSE run,
            Tail(tickers), answers, t, max_age_hours)

\* refresh_all_stocks: every requested ticker, whatever its age.
RECURSIVE refresh_all_stocks_run(_, _, _, _)
refresh_all_stocks_run(run, tickers, answers, t) ==
    IF tickers = << >> THEN run
    ELSE refresh_all_stocks_run(RefreshOne(run, Head(tickers), answers, t),
                                Tail(tickers), answers, t)

-----------------------------------------------------------------------------
(* Tables and the rows the handlers add to them                            *)

NoUser == [is_active |-> FALSE, exists |-> FALSE]
Exists(u) == users[u] # NoUser

Today(t) == t \div 24

AlertRow(uid, opp, message, t) ==
    [user_id |-> uid, ticker |-> opp.ticker, opportunity_score |-> opp.score,
     message |-> message, sent_at |-> t]

\* The longest text send_sms hands over, and what it keeps of a longer one.
SMS_LIMIT == 1600
SMS_KEPT == 1597

\* The outcome of one send_sms call: the text handed to messages.create, if
\* any, and the sid returned.
NotHanded == [handed |-> << >>, sid |-> None]

\* A send_sms that cuts a long message at the limit and then adds the dots.
send_sms_cut_at_limit(configured, accepts, message) ==
    IF ~configured THEN NotHanded
    ELSE LET body == IF Len(message) > SMS_LIMIT
                     THEN SubSeq(message, 1, SMS_LIMIT) \o <<".", ".", ".">>
                     ELSE message
         IN [handed |-> <<body>>,
             sid |-> IF accepts THEN Some(1) ELSE None]

\* SMSService.send_sms: `message` is the sequence of its characters,
\* `configured` is is_configured, `accepts` tells whether messages.create
\* returned (or raised TwilioRestException).
send_sms(configured, accepts, message) ==
    IF ~configured THEN NotHanded
    ELSE LET body == IF Len(message) > SMS_LIMIT
                     THEN SubSeq(message, 1, SMS_KEPT) \o <<".", ".", ".">>
                     ELSE message
         IN [handed |-> <<body>>,
             sid |-> IF accepts THEN Some(1) ELSE None]

\* SMSService.send_sms / send_alert: the text goes to the transport.
Sms(to, kind, tickers, t) ==
    [to |-> to, kind |-> kind, tickers |-> tickers, at |-> t]

TickersOf(opps) == [i \in 1..Len(opps) |-> opps[i].ticker]

-----------------------------------------------------------------------------
(* app/services/scheduler.py                                               *)
(*                                                                         *)
(* Each job is modelled by what its body does to the tables.  The jobs     *)
(* open their session with SessionLocal(), a name app/database.py does not *)
(* define, and await MarketDataService.refresh_stale_stocks, which is a    *)
(* plain method; the model takes the session as given and the refresh as   *)
(* the call it names.  A job runs to completion before another starts.     *)

\* A dedup that asks whether the ticker was ever alerted to the user.
AlreadyAlertedEver(al, uid, ticker, t) ==
    \E i \in 1..Len(al) : al[i].user_id = uid /\ al[i].ticker = ticker

\* The dedup query of scan_and_alert_realtime: the latest alert of the user
\* for the ticker exists and is dated today.
AlreadyAlertedToday(al, uid, ticker, t) ==
    LET mine == {i \in 1..Len(al) :
                    al[i].user_id = uid /\ al[i].ticker = ticker}
    IN /\ mine # {}
       /\ LET existing == CHOOSE i \in mine :
                            \A j \in mine : al[j].sent_at <= al[i].sent_at
          IN Today(al[existing].sent_at) = Today(t)

RECURSIVE RealtimeOpps(_, _, _, _)
RealtimeOpps(st, uid, opps, t) ==
    IF opps = << >> THEN st
    ELSE LET opp == Head(opps)
             st1 == IF AlreadyAlertedToday(st.alerts, uid, opp.ticker, t)
                    THEN st
                    ELSE [alerts |-> Append(st.alerts,
                                        AlertRow(uid, opp, "realtime", t)),
                          outbox |-> Append(st.outbox,
                                        Sms(uid, "realtime", <<opp.ticker>>, t))]
         IN RealtimeOpps(st1, uid, Tail(opps), t)

\* A recording that starts the table afresh with the digest's rows.
RECURSIVE RecordDigestAfresh(_, _, _, _, _)
RecordDigestAfresh(al, uid, opps, message, t) ==
    IF opps = << >> THEN << >>
    ELSE <<AlertRow(uid, Head(opps), message, t)>>
            \o RecordDigestAfresh(al, uid, Tail(opps), message, t)

RECURSIVE RecordDigest(_, _, _, _, _)
RecordDigest(al, uid, opps, message, t) ==
    IF opps = << >> THEN al
    ELSE RecordDigest(Append(al, AlertRow(uid, Head(opps), message, t)),
                      uid, Tail(opps), message, t)

\* A digest that leaves out the tickers already recorded today.
DigestUserDeduped(st, uid, opps, kind, t) ==
    LET fresh == SelectSeq(opps,
                    LAMBDA o : ~AlreadyAlertedToday(st.alerts, uid, o.ticker, t))
    IN IF fresh = << >> THEN st
       ELSE [alerts |-> RecordDigest(st.alerts, uid, fresh, kind, t),
             outbox |-> Append(st.outbox, Sms(uid, kind, TickersOf(fresh), t))]

\* The body of the digest loops for one user: no opportunity, no message.
DigestUser(st, uid, opps, kind, t) ==
    IF opps = << >> THEN st
    ELSE [alerts |-> RecordDigest(st.alerts, uid, opps, kind, t),
          outbox |-> Append(st.outbox, Sms(uid, kind, TickersOf(opps), t))]

RealtimeLimit == 1
DailyLimit == 3
WeeklyLimit == 5

RECURSIVE scan_and_alert_realtime(_, _, _, _, _)
scan_and_alert_realtime(st, uids, us, c, t) ==
    IF uids = << >> THEN st
    ELSE LET uid == Head(uids)
             opps == find_top_opportunities(c, us[uid].prefs, RealtimeLimit)
         IN scan_and_alert_realtime(RealtimeOpps(st, uid, opps, t),
                                    Tail(uids), us, c, t)

RECURSIVE send_daily_digest(_, _, _, _, _)
send_daily_digest(st, uids, us, c, t) ==
    IF uids = << >> THEN st
    ELSE LET uid == Head(uids)
             opps == find_top_opportunities(c, us[uid].prefs, DailyLimit)
         IN send_daily_digest(DigestUser(st, uid, opps, "daily", t),
                              Tail(uids), us, c, t)

RECURSIVE send_weekly_digest(_, _, _, _, _)
send_weekly_digest(st, uids, us, c, t) ==
    IF uids = << >> THEN st
    ELSE LET uid == Head(uids)
             opps == find_top_opportunities(c, us[uid].prefs, WeeklyLimit)
         IN send_weekly_digest(DigestUser(st, uid, opps, "weekly", t),
                               Tail(uids), us, c, t)

-----------------------------------------------------------------------------
(* app/api/cron.py                                                         *)
(*                                                                         *)
(* The request is taken as authorised.  The handler awaits the plain       *)
(* method refresh_stale_stocks and ends with market_service.close(), which *)
(* MarketDataService does not define; the model takes the refresh as the   *)
(* call it names and the rows as committed at the end of the user loop.    *)

ScanLimit == 3
SIGNIFICANT_DROP == 10

\* The per-run cap of the cron endpoints, all_tickers[:20] of 149 tracked
\* tickers in the source, scaled with the catalogue: 3 of the 7 tracked here.
REFRESH_LIMIT == 3

\* The user loop of run_market_scan for one user.
MarketScanUser(st, uid, prefs, c, t) ==
    IF prefs.is_paused THEN st
    ELSE LET opportunities == find_top_opportunities(c, prefs, ScanLimit)
             significant ==
                 SelectSeq(opportunities,
                           LAMBDA o : o.drop_from_high >= SIGNIFICANT_DROP)
         IN IF opportunities = << >> \/ significant = << >> THEN st
            ELSE LET opp == significant[1]
                 IN [alerts |-> Append(st.alerts,
                                    AlertRow(uid, opp, "corrections", t)),
                     outbox |-> Append(st.outbox,
                                    Sms(uid, "corrections", <<opp.ticker>>, t))]

RECURSIVE run_market_scan(_, _, _, _, _)
run_market_scan(st, uids, us, c, t) ==
    IF uids = << >> THEN st
    ELSE run_market_scan(MarketScanUser(st, Head(uids), us[Head(uids)].prefs, c, t),
                         Tail(uids), us, c, t)

-----------------------------------------------------------------------------
(* The same loops when a step raises.  A fault names the user and the step *)
(* that raises for that user: "find" (find_top_opportunities), "send" (an  *)
(* exception send_sms does not catch; it catches TwilioRestException only) *)
(* or "commit" (db.commit).  A run carries the rows committed so far, the  *)
(* texts the transport took, and whether an exception left the loop.       *)

\* A fault names a user and the step that goes wrong for that user: "find",
\* "send" and "commit" raise; at "refused" send_sms returns None (transport
\* not configured, or TwilioRestException caught at sms_service.py:57) and
\* no text goes out.
NoFault == [uid |-> 0, step |-> "none"]
Hits(fault, uid, step) == fault.uid = uid /\ fault.step = step

StartRun(st) == [alerts |-> st.alerts, outbox |-> st.outbox, aborted |-> FALSE]
Abort(run) == [run EXCEPT !.aborted = TRUE]

\* A realtime loop that records the alert only when send_alert returned a
\* sid.
RECURSIVE RealtimeOppsUnderSidRecorded(_, _, _, _, _)
RealtimeOppsUnderSidRecorded(fault, run, uid, opps, t) ==
    IF run.aborted \/ opps = << >> THEN run
    ELSE LET opp == Head(opps)
             sent == Append(run.outbox, Sms(uid, "realtime", <<opp.ticker>>, t))
             run1 ==
                 IF AlreadyAlertedToday(run.alerts, uid, opp.ticker, t) THEN run
                 ELSE IF Hits(fault, uid, "send") THEN Abort(run)
                 ELSE IF Hits(fault, uid, "commit")
                      THEN Abort([run EXCEPT !.outbox = sent])
                 ELSE IF Hits(fault, uid, "refused") THEN run
                 ELSE [run EXCEPT
                          !.alerts = Append(@, AlertRow(uid, opp, "realtime", t)),
                          !.outbox = sent]
         IN RealtimeOppsUnderSidRecorded(fault, run1, uid, Tail(opps), t)

\* scheduler.py:88-117, no except clause: whatever raises leaves the loop.
RECURSIVE RealtimeOppsUnder(_, _, _, _, _)
RealtimeOppsUnder(fault, run, uid, opps, t) ==
    IF run.aborted \/ opps = << >> THEN run
    ELSE LET opp == Head(opps)
             sent == Append(run.outbox, Sms(uid, "realtime", <<opp.ticker>>, t))
             run1 ==
                 IF AlreadyAlertedToday(run.alerts, uid, opp.ticker, t) THEN run
                 ELSE IF Hits(fault, uid, "send") THEN Abort(run)
                 ELSE IF Hits(fault, uid, "commit")
                      THEN Abort([run EXCEPT !.outbox = sent])
                 ELSE [run EXCEPT
                          !.alerts = Append(@, AlertRow(uid, opp, "realtime", t)),
                          !.outbox = IF Hits(fault, uid, "refused")
                                     THEN @ ELSE sent]
         IN RealtimeOppsUnder(fault, run1, uid, Tail(opps), t)

\* A realtime tick that takes the user's three best opportunities.
RECURSIVE scan_and_alert_realtime_top_three(_, _, _, _, _, _)
scan_and_alert_realtime_top_three(fault, run, uids, us, c, t) ==
    IF run.aborted \/ uids = << >> THEN run
    ELSE LET uid == Head(uids)
             opps == find_top_opportunities(c, us[uid].prefs, DailyLimit)
             run1 == IF Hits(fault, uid, "find") THEN Abort(run)
                     ELSE RealtimeOppsUnder(fault, run, uid, opps, t)
         IN scan_and_alert_realtime_top_three(fault, run1, Tail(uids), us, c, t)

RECURSIVE scan_and_alert_realtime_under(_, _, _, _, _, _)
scan_and_alert_realtime_under(fault, run, uids, us, c, t) ==
    IF run.aborted \/ uids = << >> THEN run
    ELSE LET uid == Head(uids)
             opps == find_top_opportunities(c, us[uid].prefs, RealtimeLimit)
             run1 == IF Hits(fault, uid, "find") THEN Abort(run)
                     ELSE RealtimeOppsUnder(fault, run, uid, opps, t)
         IN scan_and_alert_realtime_under(fault, run1, Tail(uids), us, c, t)

\* scheduler.py:144-176 and 204-236, no except clause either.
DigestUserUnder(fault, run, uid, opps, kind, t) ==
    LET sent == Append(run.outbox, Sms(uid, kind, TickersOf(opps), t))
    IN IF opps = << >> THEN run
       ELSE IF Hits(fault, uid, "send") THEN Abort(run)
       ELSE IF Hits(fault, uid, "commit")
            THEN Abort([run EXCEPT !.outbox = sent])
       ELSE [run EXCEPT !.alerts = RecordDigest(@, uid, opps, kind, t),
                        !.outbox = IF Hits(fault, uid, "refused")
                                   THEN @ ELSE sent]

RECURSIVE send_digest_under(_, _, _, _, _, _, _, _)
send_digest_under(fault, run, uids, us, c, t, kind, limit) ==
    IF run.aborted \/ uids = << >> THEN run
    ELSE LET uid == Head(uids)
             opps == find_top_opportunities(c, us[uid].prefs, limit)
             run1 == IF Hits(fault, uid, "find") THEN Abort(run)
                     ELSE DigestUserUnder(fault, run, uid, opps, kind, t)
         IN send_digest_under(fault, run1, Tail(uids), us, c, t, kind, limit)

\* cron.py:54-95: find_top_opportunities is outside the try, send_alert and
\* db.add inside it, and the one db.commit() follows the loop.  `alerts` are
\* the rows added to the session.
MarketScanUserUnder(fault, run, uid, prefs, c, t) ==
    IF prefs.is_paused THEN run
    ELSE IF Hits(fault, uid, "find") THEN Abort(run)
    ELSE LET opportunities == find_top_opportunities(c, prefs, ScanLimit)
             significant ==
                 SelectSeq(opportunities,
                           LAMBDA o : o.drop_from_high >= SIGNIFICANT_DROP)
         IN IF opportunities = << >> \/ significant = << >> THEN run
            ELSE IF Hits(fault, uid, "send") THEN run
            ELSE LET opp == significant[1]
                 IN [run EXCEPT
                        !.alerts = Append(@, AlertRow(uid, opp, "corrections", t)),
                        !.outbox = IF Hits(fault, uid, "refused") THEN @
                                   ELSE Append(@, Sms(uid, "corrections",
                                                      <<opp.ticker>>, t))]

RECURSIVE MarketScanLoopUnder(_, _, _, _, _, _)
MarketScanLoopUnder(fault, run, uids, us, c, t) ==
    IF run.aborted \/ uids = << >> THEN run
    ELSE MarketScanLoopUnder(
            fault,
            MarketScanUserUnder(fault, run, Head(uids), us[Head(uids)].prefs,
                                c, t),
            Tail(uids), us, c, t)

\* The rows of the session reach the table only through the final commit.
CommitSession(fault, st, run) ==
    IF run.aborted THEN [run EXCEPT !.alerts = st.alerts]
    ELSE IF fault.step = "commit" /\ run.alerts # st.alerts
         THEN Abort([run EXCEPT !.alerts = st.alerts])
    ELSE run

run_market_scan_under(fault, st, uids, us, c, t) ==
    CHOOSE done \in {CommitSession(fault, st, run) :
                        run \in {MarketScanLoopUnder(fault, StartRun(st), uids,
                                                     us, c, t)}} : TRUE

-----------------------------------------------------------------------------
(* The system: sign-up and settings pages, the clock, the market provider, *)
(* and the triggers.                                                       *)

NumUsers == 2
MaxDay == 1
MaxTexts == 2

UserIds == [i \in 1..NumUsers |-> i]
Bands == {"realtime", "daily", "weekly", "corrections"}

\* What the market provider answers for each ticker the triggers refresh.
Q(kind, price, pe, roe, de, pm) ==
    [kind |-> kind, currentPrice |-> Some(price), regularMarketPrice |-> None,
     last_price |-> Some(price), year_high |-> Some(100),
     trailingPE |-> pe, returnOnEquity |-> roe, debtToEquity |-> de,
     profitMargins |-> pm, fiftyTwoWeekHigh |-> Some(100),
     weekly_change |-> None]

Quotes ==
    [t \in Tickers |->
        CASE t = "AAPL" -> Q("info", 92, Some(8), Some(28), Some(40), Some(22))
          [] t = "JNJ"  -> Q("info", 75, Some(12), Some(22), Some(80), Some(12))
          [] t = "NVDA" -> Q("info", 80, Some(20), Some(17), Some(120), Some(7))
          [] t = "MSFT" -> Q("info", 88, Some(20), Some(17), Some(120), Some(7))
          [] t = "PFE"  -> Q("info", 88, Some(20), Some(17), Some(120), Some(7))
          [] t = "UNH"  -> Q("info", 85, Some(14), Some(20), Some(60), Some(15))
          [] OTHER      -> Q("fast", 85, None, None, None, None)]

\* A fixed listing order of a ticker set.
ListOf(tickers) == SelectSeq(CacheOrder, LAMBDA t : t \in tickers)

FirstN(seq, n) == SubSeq(seq, 1, IF Len(seq) < n THEN Len(seq) ELSE n)

Selected(band) ==
    SelectSeq(UserIds,
              LAMBDA u : /\ Exists(u)
                         /\ users[u].is_active
                         /\ ~users[u].prefs.is_paused
                         /\ users[u].prefs.alert_frequency = band)

ActiveUsers == SelectSeq(UserIds, LAMBDA u : Exists(u) /\ users[u].is_active)

Tables == [alerts |-> alerts, outbox |-> outbox]

\* The triggers run while fewer than MaxTexts alert texts have gone out.
Room == Cardinality({i \in 1..Len(outbox) : outbox[i].kind # "welcome"}) < MaxTexts

\* What the settings page submits: a band with the drop threshold typed as a
\* percentage ("8"), monitoring on; or the same with monitoring paused.
SettingsForms ==
    [alert_frequency : Bands, industries : {{}},
     min_drop_threshold : {800}, max_pe : {25}, max_debt_equity : {150},
     min_roe : {15}, prefer_stocks : {TRUE}, is_paused : {FALSE}]
    \cup
    [alert_frequency : {"realtime"}, industries : {{}},
     min_drop_threshold : {800}, max_pe : {25}, max_debt_equity : {150},
     min_roe : {15}, prefer_stocks : {TRUE}, is_paused : {TRUE}]

NoProbe == [stock |-> "none"]

Init ==
    /\ users = [u \in 1..NumUsers |-> NoUser]
    /\ cache = [t \in Tickers |-> NoRow]
    /\ alerts = << >>
    /\ outbox = << >>
    /\ now = 0
    /\ probe = NoProbe

\* POST /signup: the next user id, the default preference row, the welcome
\* text.
Signup ==
    \E u \in 1..NumUsers :
        /\ ~Exists(u)
        /\ \A v \in 1..(u - 1) : Exists(v)
        /\ users' = [users EXCEPT ![u] = [is_active |-> TRUE,
                                          prefs |-> SignupPrefs]]
        /\ outbox' = Append(outbox, Sms(u, "welcome", << >>, now))
        /\ UNCHANGED <<cache, alerts, now, probe>>

\* POST /settings/{user_id}
SettingsSubmit ==
    \E u \in 1..NumUsers, form \in SettingsForms :
        /\ Exists(u)
        /\ users' = [users EXCEPT ![u].prefs = settings_submit(@, form)]
        /\ UNCHANGED <<cache, alerts, outbox, now, probe>>

\* The unsubscribe tool of the SMS conversation.
Unsubscribe ==
    \E u \in 1..NumUsers :
        /\ Exists(u)
        /\ users[u].is_active
        /\ users' = [users EXCEPT ![u].is_active = FALSE]
        /\ UNCHANGED <<cache, alerts, outbox, now, probe>>

\* A calendar day passes.
AdvanceClock ==
    /\ Today(now) < MaxDay
    /\ now' = now + 24
    /\ UNCHANGED <<users, cache, alerts, outbox, probe>>

\* scheduler.refresh_stock_data: every sector stock older than 24 hours.
RefreshStockData ==
    /\ cache' = refresh_stale_stocks(cache, ListOf(get_all_stocks), Quotes,
                                     now, 24)
    /\ UNCHANGED <<users, alerts, outbox, now, probe>>

\* A realtime tick that also refreshed the stale snapshots of its universe.
ScanAndAlertRealtimeRefreshing ==
    /\ Room
    /\ LET c == refresh_stale_stocks(cache, ListOf(get_all_stocks), Quotes,
                                     now, 24)
           st == scan_and_alert_realtime(Tables, Selected("realtime"),
                                         users, c, now)
       IN cache' = c /\ alerts' = st.alerts /\ outbox' = st.outbox
    /\ UNCHANGED <<users, now, probe>>

ScanAndAlertRealtime ==
    /\ Room
    /\ LET st == scan_and_alert_realtime(Tables, Selected("realtime"),
                                         users, cache, now)
       IN alerts' = st.alerts /\ outbox' = st.outbox
    /\ UNCHANGED <<users, cache, now, probe>>

SendDailyDigest ==
    /\ Room
    /\ LET st == send_daily_digest(Tables, Selected("daily"),
                                   users, cache, now)
       IN alerts' = st.alerts /\ outbox' = st.outbox
    /\ UNCHANGED <<users, cache, now, probe>>

SendWeeklyDigest ==
    /\ Room
    /\ LET st == send_weekly_digest(Tables, Selected("weekly"),
                                    users, cache, now)
       IN alerts' = st.alerts /\ outbox' = st.outbox
    /\ UNCHANGED <<users, cache, now, probe>>

\* POST /api/cron/scan: refresh the first REFRESH_LIMIT stocks and ETFs older
\* than 24 hours, then the alert loop over every active user.
RunMarketScan ==
    /\ Room
    /\ LET all_tickers == FirstN(ListOf(get_all_stocks \cup MAJOR_ETFS),
                                 REFRESH_LIMIT)
           c == refresh_stale_stocks(cache, all_tickers, Quotes, now, 24)
           st == run_market_scan(Tables, ActiveUsers, users, c, now)
       IN /\ cache' = c
          /\ alerts' = st.alerts
          /\ outbox' = st.outbox
    /\ UNCHANGED <<users, now, probe>>

Next ==
    \/ Signup
    \/ SettingsSubmit
    \/ Unsubscribe
    \/ AdvanceClock
    \/ RefreshStockData
    \/ ScanAndAlertRealtime
    \/ SendDailyDigest
    \/ SendWeeklyDigest
    \/ RunMarketScan

Spec == Init /\ [][Next]_vars

-----------------------------------------------------------------------------
(* The scoring bench: one cached snapshot and one preference row, through  *)
(* the settings and onboarding pages, into meets_criteria and              *)
(* calculate_score.                                                        *)

Prices == {None, Some(0), Some(70), Some(80), Some(92), Some(100), Some(110)}
Highs == {None, Some(0), Some(100)}
PERatios == {None, Some(8), Some(12), Some(20), Some(40)}
DebtRatios == {None, Some(40), Some(80), Some(120), Some(250)}
ROEs == {None, Some(10), Some(17), Some(22), Some(28)}
Margins == {None, Some(3), Some(7), Some(12), Some(22)}

Snapshots ==
    [ticker : {"AAPL"}, last_price : Prices, fifty_two_week_high : Highs,
     pe_ratio : PERatios, debt_to_equity : DebtRatios, roe : ROEs,
     profit_margin : Margins]

\* Drop thresholds the settings page is given: "0", "0.10" and "8".
ScorerForms ==
    [alert_frequency : {"daily"}, industries : {{}},
     min_drop_threshold : {0, 10, 800}, max_pe : {25},
     max_debt_equity : {150}, min_roe : {15}, prefer_stocks : {TRUE},
     is_paused : {FALSE}]

Strategies == {"value", "growth", "dividend"}

Unevaluated(stock, prefs) ==
    [stock |-> stock, prefs |-> prefs, evaluated |-> FALSE,
     passes |-> FALSE, drop |-> 0, score |-> 0, reasons |-> << >>]

InitScorer ==
    /\ users = [u \in 1..NumUsers |-> NoUser]
    /\ cache = [t \in Tickers |-> NoRow]
    /\ alerts = << >>
    /\ outbox = << >>
    /\ now = 0
    /\ probe \in {Unevaluated(stock, SignupPrefs) : stock \in Snapshots}

ScorerSettingsSubmit ==
    \E form \in ScorerForms :
        /\ probe' = Unevaluated(probe.stock, settings_submit(probe.prefs, form))
        /\ UNCHANGED <<users, cache, alerts, outbox, now>>

ScorerOnboardingSubmit ==
    \E strategy \in Strategies :
        /\ probe' = Unevaluated(probe.stock,
                        onboarding_submit(probe.prefs, strategy, {}, "daily"))
        /\ UNCHANGED <<users, cache, alerts, outbox, now>>

ScorerEvaluate ==
    /\ ~probe.evaluated
    /\ LET mc == meets_criteria(probe.stock, probe.prefs)
           sc == calculate_score(probe.stock, probe.prefs)
       IN probe' = [probe EXCEPT !.evaluated = TRUE,
                                 !.passes = mc.passes, !.drop = mc.drop,
                                 !.score = sc.score, !.reasons = sc.reasons]
    /\ UNCHANGED <<users, cache, alerts, outbox, now>>

NextScorer ==
    \/ ScorerSettingsSubmit
    \/ ScorerOnboardingSubmit
    \/ ScorerEvaluate

SpecScorer == InitScorer /\ [][NextScorer]_vars

-----------------------------------------------------------------------------
(* The refresh bench: the cache, the clock and the provider, through the   *)
(* entry points that refresh snapshots.  `probe` keeps the last run.       *)

\* The hours at which the bench looks at the cache: ages of 1, 4, 5, 20, 21
\* and 25 hours occur between them.
RefreshHours == {0, 4, 5, 25}

\* The tickers the cron endpoints track, in the order list(set(...)) gives
\* them; Python fixes that order for the life of the process.
TrackedTickers == ListOf(get_all_stocks \cup MAJOR_ETFS)

\* Answers without a usable price: the request raises; fast_info has no
\* last_price; info carries currentPrice: None and no regularMarketPrice.
Raised == [Q("error", 0, None, None, None, None)
              EXCEPT !.currentPrice = None, !.last_price = None]
FastWithoutPrice == [Q("fast", 0, None, None, None, None)
                        EXCEPT !.currentPrice = None, !.last_price = None]
InfoWithoutPrice == [Q("info", 0, Some(9), Some(30), Some(50), Some(20))
                        EXCEPT !.currentPrice = None, !.last_price = None]

\* info lacks currentPrice and fast_info carries the price and the range.
FastWithPrice == Q("fast", 90, None, None, None, None)

AnswersWith(tickers, answer) ==
    [t \in Tickers |-> IF t \in tickers THEN answer ELSE Quotes[t]]

\* What the provider answers during one run.
ProviderAnswers ==
    {Quotes, AnswersWith({"JNJ"}, Raised),
     AnswersWith({"JNJ"}, FastWithoutPrice),
     AnswersWith({"JNJ"}, InfoWithoutPrice),
     AnswersWith({"AAPL"}, FastWithPrice)}

NotRun ==
    [ran |-> FALSE, entry |-> "none", requested |-> << >>, max_age |-> 0,
     at |-> 0, before |-> [t \in Tickers |-> NoRow], answers |-> Quotes,
     calls |-> << >>, updated |-> << >>]

RunRecord(entry, requested, max_age, answers, run) ==
    [ran |-> TRUE, entry |-> entry, requested |-> requested,
     max_age |-> max_age, at |-> now, before |-> cache, answers |-> answers,
     calls |-> run.calls, updated |-> run.updated]

InitRefresh ==
    /\ users = [u \in 1..NumUsers |-> NoUser]
    /\ cache = [t \in Tickers |-> NoRow]
    /\ alerts = << >>
    /\ outbox = << >>
    /\ now = 0
    /\ probe = NotRun

RefreshClock ==
    \E h \in RefreshHours :
        /\ h > now
        /\ now' = h
        /\ UNCHANGED <<users, cache, alerts, outbox, probe>>

\* POST /api/cron/scan with no user signed up: the refresh and an empty loop.
RefreshCronScan ==
    \E answers \in ProviderAnswers :
        LET requested == FirstN(TrackedTickers, REFRESH_LIMIT)
            run == refresh_stale_stocks_run(NoRun(cache), requested, answers,
                                            now, 24)
        IN /\ cache' = run.cache
           /\ probe' = RunRecord("run_market_scan", requested, 24, answers,
                                 run)
           /\ UNCHANGED <<users, alerts, outbox, now>>

\* GET /api/cron/refresh.
RefreshMarketData ==
    \E answers \in ProviderAnswers :
        LET requested == FirstN(TrackedTickers, REFRESH_LIMIT)
            run == refresh_stale_stocks_run(NoRun(cache), requested, answers,
                                            now, 1)
        IN /\ cache' = run.cache
           /\ probe' = RunRecord("refresh_market_data", requested, 1, answers,
                                 run)
           /\ UNCHANGED <<users, alerts, outbox, now>>

\* The hourly job of the scheduler.
RefreshStockDataJob ==
    \E answers \in ProviderAnswers :
        LET requested == ListOf(get_all_stocks)
            run == refresh_stale_stocks_run(NoRun(cache), requested, answers,
                                            now, 24)
        IN /\ cache' = run.cache
           /\ probe' = RunRecord("refresh_stock_data", requested, 24, answers,
                                 run)
           /\ UNCHANGED <<users, alerts, outbox, now>>

\* refresh_stale_stocks called with a four-hour maximum age.
RefreshStaleStocks ==
    \E answers \in ProviderAnswers :
        LET run == refresh_stale_stocks_run(NoRun(cache), TrackedTickers,
                                            answers, now, 4)
        IN /\ cache' = run.cache
           /\ probe' = RunRecord("refresh_stale_stocks", TrackedTickers, 4,
                                 answers, run)
           /\ UNCHANGED <<users, alerts, outbox, now>>

\* refresh_all_stocks over the tracked tickers.
RefreshAllStocks ==
    \E answers \in ProviderAnswers :
        LET run == refresh_all_stocks_run(NoRun(cache), TrackedTickers,
                                          answers, now)
        IN /\ cache' = run.cache
           /\ probe' = RunRecord("refresh_all_stocks", TrackedTickers, 0,
                                 answers, run)
           /\ UNCHANGED <<users, alerts, outbox, now>>

NextRefresh ==
    \/ RefreshClock
    \/ RefreshCronScan
    \/ RefreshMarketData
    \/ RefreshStockDataJob
    \/ RefreshStaleStocks
    \/ RefreshAllStocks

SpecRefresh == InitRefresh /\ [][NextRefresh]_vars

\* A cron scan during which the provider answers for every ticker.
CronScanAnswered ==
    LET requested == FirstN(TrackedTickers, REFRESH_LIMIT)
        run == refresh_stale_stocks_run(NoRun(cache), requested, Quotes,
                                        now, 24)
    IN /\ cache' = run.cache
       /\ probe' = RunRecord("run_market_scan", requested, 24, Quotes, run)
       /\ UNCHANGED <<users, alerts, outbox, now>>

\* The cron scan alone, with time passing and the scan called again and
\* again by its external scheduler, the provider answering in the end.
NextCron ==
    \/ RefreshClock
    \/ RefreshCronScan

SpecCron ==
    /\ InitRefresh
    /\ [][NextCron]_vars
    /\ WF_vars(RefreshClock)
    /\ WF_vars(CronScanAnswered)

-----------------------------------------------------------------------------
(* The finder bench: one preference row and one cache, through the         *)
(* settings and onboarding pages, into find_top_opportunities.             *)

\* Investment type lists a preference row may hold, unknown names included.
FinderTypeSets == (SUBSET INVESTMENT_TYPES) \cup {{"Bonds"}}

\* Industry lists the pages submit, unknown names included.
FinderIndustries ==
    {{}, {"Technology"}, {"Technology", "Healthcare"}, {"Biotech"},
     {"Biotech", "Healthcare"}}

FinderForms ==
    [alert_frequency : {"daily"}, industries : FinderIndustries,
     min_drop_threshold : {10, 800}, max_pe : {25}, max_debt_equity : {150},
     min_roe : {15}, prefer_stocks : BOOLEAN, is_paused : {FALSE}]

\* The answers of the provider with the ETF at the given price.
FinderQuotes(etf_price) ==
    [t \in Tickers |->
        IF t \in MAJOR_ETFS THEN Q("fast", etf_price, None, None, None, None)
        ELSE Quotes[t]]

\* Caches holding a row for each of `present`, written at hour 0.
RECURSIVE FillCache(_, _, _)
FillCache(c, tickers, answers) ==
    IF tickers = << >> THEN c
    ELSE FillCache(update_stock_cache(c, Head(tickers), answers[Head(tickers)], 0),
                   Tail(tickers), answers)

\* The answers of the provider with the given weekly change of AAPL.
WeeklyQuotes(weekly_change) ==
    [Quotes EXCEPT !["AAPL"].weekly_change = weekly_change]

FinderCaches ==
    {FillCache([t \in Tickers |-> NoRow], ListOf(present), FinderQuotes(p)) :
        present \in {Tickers, Tickers \ {"PFE"}, get_all_stocks},
        p \in {85, 88}}
    \cup
    {FillCache([t \in Tickers |-> NoRow], ListOf(Tickers), WeeklyQuotes(w)) :
        w \in {Some(-2), Some(-7)}}

NotScanned(prefs) ==
    [prefs |-> prefs, scanned |-> FALSE, limit |-> 0, universe |-> {},
     raised |-> FALSE, found |-> << >>, top |-> << >>]

InitFinder ==
    /\ users = [u \in 1..NumUsers |-> NoUser]
    /\ cache \in FinderCaches
    /\ alerts = << >>
    /\ outbox = << >>
    /\ now = 0
    /\ probe \in {NotScanned([SignupPrefs EXCEPT !.investment_types = ty,
                                                 !.etf_min_drop = e]) :
                    ty \in FinderTypeSets, e \in {10, 15}}

FinderSettingsSubmit ==
    \E form \in FinderForms :
        /\ probe' = NotScanned(settings_submit(probe.prefs, form))
        /\ UNCHANGED <<users, cache, alerts, outbox, now>>

FinderOnboardingSubmit ==
    \E strategy \in Strategies, industries \in {{}, {"Technology"}} :
        /\ probe' = NotScanned(onboarding_submit(probe.prefs, strategy,
                                                 industries, "daily"))
        /\ UNCHANGED <<users, cache, alerts, outbox, now>>

FinderScan ==
    \E limit \in {RealtimeLimit, DailyLimit, WeeklyLimit} :
        /\ ~probe.scanned
        /\ probe' = [prefs |-> probe.prefs, scanned |-> TRUE, limit |-> limit,
                     universe |-> tickers_to_scan(probe.prefs),
                     raised |-> find_opportunities_raises(cache, probe.prefs),
                     found |-> find_opportunities(cache, probe.prefs),
                     top |-> find_top_opportunities(cache, probe.prefs, limit)]
        /\ UNCHANGED <<users, cache, alerts, outbox, now>>

NextFinder ==
    \/ FinderSettingsSubmit
    \/ FinderOnboardingSubmit
    \/ FinderScan

SpecFinder == InitFinder /\ [][NextFinder]_vars

-----------------------------------------------------------------------------
(* The fault bench: every user signed up to the same band, every snapshot  *)
(* fresh, and the triggers run with at most one step raising for one user. *)

Faults ==
    {NoFault}
    \cup [uid : 1..NumUsers, step : {"find", "send", "commit", "refused"}]

NoTrigger ==
    [ran |-> FALSE, trigger |-> "none", fault |-> NoFault, uids |-> << >>,
     before |-> [alerts |-> << >>, outbox |-> << >>], at |-> 0,
     aborted |-> FALSE]

TriggerRun(trigger, fault, uids, run) ==
    [ran |-> TRUE, trigger |-> trigger, fault |-> fault, uids |-> uids,
     before |-> Tables, at |-> now, aborted |-> run.aborted]

InitFaults ==
    /\ \E b \in Bands :
          users = [u \in 1..NumUsers |->
                    [is_active |-> TRUE,
                     prefs |-> [SignupPrefs EXCEPT !.alert_frequency = b]]]
    /\ cache = FillCache([t \in Tickers |-> NoRow], ListOf(Tickers), Quotes)
    /\ alerts = << >>
    /\ outbox = << >>
    /\ now = 0
    /\ probe = NoTrigger

FaultsClock ==
    /\ Today(now) < MaxDay
    /\ now' = now + 24
    /\ UNCHANGED <<users, cache, alerts, outbox, probe>>

RealtimeUnderFault ==
    \E fault \in Faults :
        \E run \in {scan_and_alert_realtime_under(
                        fault, StartRun(Tables), Selected("realtime"), users,
                        cache, now)} :
            /\ Room
            /\ alerts' = run.alerts
            /\ outbox' = run.outbox
            /\ probe' = TriggerRun("realtime", fault, Selected("realtime"), run)
            /\ UNCHANGED <<users, cache, now>>

DailyDigestUnderFault ==
    \E fault \in Faults :
        \E run \in {send_digest_under(
                        fault, StartRun(Tables), Selected("daily"), users,
                        cache, now, "daily", DailyLimit)} :
            /\ Room
            /\ alerts' = run.alerts
            /\ outbox' = run.outbox
            /\ probe' = TriggerRun("daily", fault, Selected("daily"), run)
            /\ UNCHANGED <<users, cache, now>>

WeeklyDigestUnderFault ==
    \E fault \in Faults :
        \E run \in {send_digest_under(
                        fault, StartRun(Tables), Selected("weekly"), users,
                        cache, now, "weekly", WeeklyLimit)} :
            /\ Room
            /\ alerts' = run.alerts
            /\ outbox' = run.outbox
            /\ probe' = TriggerRun("weekly", fault, Selected("weekly"), run)
            /\ UNCHANGED <<users, cache, now>>

MarketScanUnderFault ==
    \E fault \in Faults :
        \E c \in {refresh_stale_stocks(
                      cache, FirstN(TrackedTickers, REFRESH_LIMIT), Quotes,
                      now, 24)} :
            \E run \in {run_market_scan_under(fault, Tables, ActiveUsers,
                                              users, c, now)} :
                /\ Room
                /\ cache' = c
                /\ alerts' = run.alerts
                /\ outbox' = run.outbox
                /\ probe' = TriggerRun("scan", fault, ActiveUsers, run)
                /\ UNCHANGED <<users, now>>

NextFaults ==
    \/ FaultsClock
    \/ RealtimeUnderFault
    \/ DailyDigestUnderFault
    \/ WeeklyDigestUnderFault
    \/ MarketScanUnderFault

SpecFaults == InitFaults /\ [][NextFaults]_vars

-----------------------------------------------------------------------------
(* Claims about the eligibility filter and the score (SpecScorer)          *)

\* The stated filter: (false, 0) without a price or a high; otherwise the
\* drop with the four rules, absent metrics never failing.
StatedCriteria(stock, prefs) ==
    IF IsNone(stock.last_price) \/ IsNone(stock.fifty_two_week_high)
    THEN [passes |-> FALSE, drop |-> 0]
    ELSE LET drop == drop_from_high(stock) IN
         [passes |->
              ~ \/ drop < prefs.min_drop_threshold
                \/ ~IsNone(stock.pe_ratio) /\ Val(stock.pe_ratio) > prefs.max_pe
                \/ /\ ~IsNone(stock.debt_to_equity)
                   /\ Val(stock.debt_to_equity) > prefs.max_debt_equity
                \/ ~IsNone(stock.roe) /\ Val(stock.roe) < prefs.min_roe,
          drop |-> drop]

\* The quotient (high - price)/high exists: the high is absent or not zero.
DropDefined(stock) ==
    IsNone(stock.fifty_two_week_high) \/ Val(stock.fifty_two_week_high) # 0

\* C7: for every snapshot and thresholds, meets_criteria returns (false, 0)
\* when the price or the 52-week high is absent, and otherwise the drop
\* together with the verdict of the four rules, an absent P/E, debt/equity
\* or ROE never failing.
C7_MeetsCriteriaAsStated ==
    probe.evaluated /\ DropDefined(probe.stock)
        => /\ probe.passes = StatedCriteria(probe.stock, probe.prefs).passes
           /\ probe.drop = StatedCriteria(probe.stock, probe.prefs).drop

\* C8: for every snapshot with price >= 52-week high and every storable
\* threshold, meets_criteria returns a drop <= 0 and does not pass.
C8_NoPassAtOrAboveHigh ==
    (/\ probe.evaluated
     /\ ~IsNone(probe.stock.last_price)
     /\ ~IsNone(probe.stock.fifty_two_week_high)
     /\ Val(probe.stock.last_price) >= Val(probe.stock.fifty_two_week_high))
        => probe.drop <= 0 /\ ~probe.passes

\* The stated buckets, each awarding its highest matching tier.
StatedDropPoints(stock, prefs) ==
    IF IsNone(stock.last_price) \/ IsNone(stock.fifty_two_week_high) THEN 0
    ELSE LET drop == drop_from_high(stock) IN
         IF drop >= 30 THEN 30 ELSE IF drop >= 20 THEN 25
         ELSE IF drop >= prefs.min_drop_threshold THEN 15 ELSE 0

StatedPEPoints(stock, prefs) ==
    IF IsNone(stock.pe_ratio) THEN 0
    ELSE LET pe == Val(stock.pe_ratio) IN
         IF pe < 10 THEN 20 ELSE IF pe < 15 THEN 15
         ELSE IF pe <= prefs.max_pe THEN 10 ELSE 0

StatedDebtPoints(stock, prefs) ==
    IF IsNone(stock.debt_to_equity) THEN 0
    ELSE LET de == Val(stock.debt_to_equity) IN
         IF de < 50 THEN 15 ELSE IF de < 100 THEN 10
         ELSE IF de <= prefs.max_debt_equity THEN 5 ELSE 0

StatedROEPoints(stock, prefs) ==
    IF IsNone(stock.roe) THEN 0
    ELSE LET roe == Val(stock.roe) IN
         IF roe >= 25 THEN 20 ELSE IF roe >= 20 THEN 15
         ELSE IF roe >= prefs.min_roe THEN 10 ELSE 0

StatedMarginPoints(stock) ==
    IF IsNone(stock.profit_margin) THEN 0
    ELSE LET pm == Val(stock.profit_margin) IN
         IF pm >= 20 THEN 15 ELSE IF pm >= 10 THEN 10
         ELSE IF pm >= 5 THEN 5 ELSE 0

StatedScore(stock, prefs) ==
    StatedDropPoints(stock, prefs) + StatedPEPoints(stock, prefs)
        + StatedDebtPoints(stock, prefs) + StatedROEPoints(stock, prefs)
        + StatedMarginPoints(stock)

ExampleSnapshot ==
    [ticker |-> "AAPL", last_price |-> Some(70),
     fifty_two_week_high |-> Some(100), pe_ratio |-> Some(8),
     debt_to_equity |-> Some(40), roe |-> Some(28),
     profit_margin |-> Some(22)]

\* C9: for every snapshot and thresholds, calculate_score is the sum of the
\* five stated buckets, lies in [0, 100], and the snapshot {price 70,
\* high 100, P/E 8, D/E 0.4, ROE 0.28, margin 0.22} scores exactly 100.
C9_ScoreIsSumOfBuckets ==
    probe.evaluated /\ DropDefined(probe.stock)
        => /\ probe.score = StatedScore(probe.stock, probe.prefs)
           /\ probe.score \in 0..100
           /\ probe.stock = ExampleSnapshot => probe.score = 100

\* Snapshots that differ from the bench snapshot in one present metric.
WithPrice(v) == [probe.stock EXCEPT !.last_price = v]
WithPE(v) == [probe.stock EXCEPT !.pe_ratio = v]
WithDebt(v) == [probe.stock EXCEPT !.debt_to_equity = v]
WithROE(v) == [probe.stock EXCEPT !.roe = v]
WithMargin(v) == [probe.stock EXCEPT !.profit_margin = v]

ScoreOf(stock) == calculate_score(stock, probe.prefs).score

Present(x, values) == IF IsNone(x) THEN {} ELSE values \ {None}

\* C10: with the other fields and the thresholds fixed, the points do not
\* decrease as the drop from high, ROE or margin increases and do not
\* increase as P/E or debt/equity increases, down to a price of 0.
C10_ScoreMonotone ==
    probe.evaluated
        => /\ \A v \in Present(probe.stock.last_price, Prices) :
                (/\ Truthy(probe.stock.fifty_two_week_high)
                 /\ Val(v) <= Val(probe.stock.last_price))
                    => ScoreOf(WithPrice(v)) >= probe.score
           /\ \A v \in Present(probe.stock.roe, ROEs) :
                Val(v) >= Val(probe.stock.roe)
                    => ScoreOf(WithROE(v)) >= probe.score
           /\ \A v \in Present(probe.stock.profit_margin, Margins) :
                Val(v) >= Val(probe.stock.profit_margin)
                    => ScoreOf(WithMargin(v)) >= probe.score
           /\ \A v \in Present(probe.stock.pe_ratio, PERatios) :
                Val(v) >= Val(probe.stock.pe_ratio)
                    => ScoreOf(WithPE(v)) <= probe.score
           /\ \A v \in Present(probe.stock.debt_to_equity, DebtRatios) :
                Val(v) >= Val(probe.stock.debt_to_equity)
                    => ScoreOf(WithDebt(v)) <= probe.score

-----------------------------------------------------------------------------
(* Claims about the triggers (Spec)                                        *)

\* What a step added to the alerts table and handed to the transport.
NewRecords == SubSeq(alerts', Len(alerts) + 1, Len(alerts'))
NewTexts == SubSeq(outbox', Len(outbox) + 1, Len(outbox'))
Grew == /\ Len(alerts') >= Len(alerts)
        /\ SubSeq(alerts', 1, Len(alerts)) = alerts
        /\ Len(outbox') >= Len(outbox)
        /\ SubSeq(outbox', 1, Len(outbox)) = outbox

RecordsOf(log, u, T) ==
    {i \in 1..Len(log) : log[i].user_id = u /\ log[i].ticker = T}
TextsTo(box, u) == {i \in 1..Len(box) : box[i].to = u}

RecordedToday(u, T) ==
    \E i \in RecordsOf(alerts, u, T) : Today(alerts[i].sent_at) = Today(now)

InBand(u, band) ==
    /\ Exists(u) /\ users[u].is_active
    /\ ~users[u].prefs.is_paused
    /\ users[u].prefs.alert_frequency = band

TopOf(u, limit) == find_top_opportunities(cache, users[u].prefs, limit)

\* C1: in every reachable state the alerts table holds at most one record
\* per (user, ticker, calendar day).
C1_OneRecordPerUserTickerDay ==
    \A i, j \in 1..Len(alerts) :
        (/\ i # j
         /\ alerts[i].user_id = alerts[j].user_id
         /\ alerts[i].ticker = alerts[j].ticker)
            => Today(alerts[i].sent_at) # Today(alerts[j].sent_at)

\* C2: once a record for (U, T) dated today exists, a realtime tick sends no
\* realtime alert for T to U and appends no record for (U, T); a tick on a
\* day without such a record in which T is U's top opportunity sends the
\* alert and records it.
C2_RealtimeDedup ==
    [][ScanAndAlertRealtime =>
        /\ Grew
        /\ \A u \in 1..NumUsers, T \in Tickers :
            LET added == RecordsOf(NewRecords, u, T)
                sent == {i \in TextsTo(NewTexts, u) :
                            /\ NewTexts[i].kind = "realtime"
                            /\ NewTexts[i].tickers = <<T>>}
            IN /\ RecordedToday(u, T) => added = {} /\ sent = {}
               /\ (/\ ~RecordedToday(u, T)
                   /\ InBand(u, "realtime")
                   /\ TopOf(u, 1) # << >>
                   /\ TopOf(u, 1)[1].ticker = T)
                    => Cardinality(added) = 1 /\ Cardinality(sent) = 1]_vars

\* A user holds realtime records for one ticker on two consecutive days.
C2_Witness ==
    \E u \in 1..NumUsers, T \in Tickers :
        \E i, j \in RecordsOf(alerts, u, T) :
            /\ alerts[i].message = "realtime" /\ alerts[j].message = "realtime"
            /\ Today(alerts[j].sent_at) = Today(alerts[i].sent_at) + 1

\* The tables after the same trigger runs once more on the state a step left.
RerunRealtime ==
    scan_and_alert_realtime(Tables', Selected("realtime")', users', cache', now')
RerunDaily ==
    send_daily_digest(Tables', Selected("daily")', users', cache', now')
RerunWeekly ==
    send_weekly_digest(Tables', Selected("weekly")', users', cache', now')
RerunScan ==
    run_market_scan(Tables', ActiveUsers', users',
                    refresh_stale_stocks(cache',
                        FirstN(ListOf(get_all_stocks \cup MAJOR_ETFS),
                               REFRESH_LIMIT),
                        Quotes, now', 24),
                    now')

\* C3: every trigger is idempotent on re-run: a second run on the same day
\* with unchanged snapshots, users and thresholds sends no message and
\* appends no record.
C3_TriggersIdempotent ==
    [][/\ ScanAndAlertRealtime => RerunRealtime = Tables'
       /\ SendDailyDigest => RerunDaily = Tables'
       /\ SendWeeklyDigest => RerunWeekly = Tables'
       /\ RunMarketScan => RerunScan = Tables']_vars

OnlyInBand(band) ==
    /\ Grew
    /\ \A i \in 1..Len(NewRecords) : InBand(NewRecords[i].user_id, band)
    /\ \A i \in 1..Len(NewTexts) : InBand(NewTexts[i].to, band)

\* C4: a trigger run for band X sends messages and appends records only for
\* users who are active, not paused and in band X.
C4_OnlyUsersOfTheBand ==
    [][/\ ScanAndAlertRealtime => OnlyInBand("realtime")
       /\ SendDailyDigest => OnlyInBand("daily")
       /\ SendWeeklyDigest => OnlyInBand("weekly")
       /\ RunMarketScan => OnlyInBand("corrections")]_vars

\* C5: in a corrections scan a user is alerted only if the top opportunity
\* has a drop of at least 0.10, and then about that top opportunity; with a
\* top drop below 0.10 the scan is silent for the user.
C5_ScanAlertsTheTop ==
    [][RunMarketScan =>
        /\ Grew
        /\ \A u \in 1..NumUsers :
            LET mine == {i \in 1..Len(NewRecords) : NewRecords[i].user_id = u}
                top == find_top_opportunities(cache', users[u].prefs, 1)
            IN mine # {} =>
                /\ top # << >>
                /\ top[1].drop_from_high >= SIGNIFICANT_DROP
                /\ \A i \in mine : NewRecords[i].ticker = top[1].ticker]_vars

\* What a digest step did for user u, against the top `limit` opportunities.
DigestDid(u, band, limit) ==
    LET opps == TopOf(u, limit)
        mine == {i \in 1..Len(NewRecords) : NewRecords[i].user_id = u}
        sent == TextsTo(NewTexts, u)
    IN IF opps = << >> THEN mine = {} /\ sent = {}
       ELSE /\ Cardinality(sent) = 1
            /\ \A i \in sent : /\ NewTexts[i].kind = band
                               /\ NewTexts[i].tickers = TickersOf(opps)
            /\ Cardinality(mine) = Len(opps)
            /\ \A k \in 1..Len(opps) :
                 Cardinality(RecordsOf(NewRecords, u, opps[k].ticker)) = 1

DigestRecordedToday(u, T) ==
    \E i \in RecordsOf(alerts, u, T) :
        /\ alerts[i].message \in {"daily", "weekly"}
        /\ Today(alerts[i].sent_at) = Today(now)

\* C6: a digest run sends every selected user with an opportunity exactly one
\* message of the top N (3 daily, 5 weekly), whatever was recorded before,
\* and appends one record per included ticker; a user without opportunities
\* gets nothing; a digest record dated today suppresses a realtime alert for
\* that user and ticker.
C6_DigestAndSuppression ==
    [][/\ SendDailyDigest =>
            Grew /\ \A u \in 1..NumUsers :
                        InBand(u, "daily") => DigestDid(u, "daily", 3)
       /\ SendWeeklyDigest =>
            Grew /\ \A u \in 1..NumUsers :
                        InBand(u, "weekly") => DigestDid(u, "weekly", 5)
       /\ ScanAndAlertRealtime =>
            \A u \in 1..NumUsers, T \in Tickers :
                DigestRecordedToday(u, T) =>
                    /\ RecordsOf(NewRecords, u, T) = {}
                    /\ \A i \in TextsTo(NewTexts, u) :
                          NewTexts[i].tickers # <<T>>]_vars

\* A user with more than five opportunities holds today's records of a
\* five-ticker weekly digest, is now in the realtime band with one of the
\* digest's tickers on top, and the realtime trigger can run.
C6_Witness ==
    \E u \in 1..NumUsers :
        /\ InBand(u, "realtime")
        /\ Room
        /\ TopOf(u, 1) # << >>
        /\ DigestRecordedToday(u, TopOf(u, 1)[1].ticker)
        /\ \E i \in TextsTo(outbox, u) :
              outbox[i].kind = "weekly" /\ Len(outbox[i].tickers) = 5
        /\ Len(find_opportunities(cache, users[u].prefs)) > 5

-----------------------------------------------------------------------------
(* Claims about the reasons, the ranking and the universe                  *)

\* The bucket a reason speaks for: 1 drop, 2 P/E, 3 debt/equity, 4 ROE,
\* 5 margin.
ReasonBucket(reason) ==
    CASE reason \in {"drop_significant", "drop_good", "drop"} -> 1
      [] reason \in {"pe_very_low", "pe_low", "pe_reasonable"} -> 2
      [] reason \in {"debt_very_low", "debt_low", "debt_manageable"} -> 3
      [] reason \in {"roe_excellent", "roe_strong", "roe_good"} -> 4
      [] OTHER -> 5

BucketPoints(stock, prefs) ==
    <<DropBucket(stock, prefs).points, PEBucket(stock, prefs).points,
      DebtBucket(stock, prefs).points, ROEBucket(stock, prefs).points,
      MarginBucket(stock).points>>

\* C11: calculate_score returns exactly one reason per bucket that awarded
\* points, none for a bucket without data or below its lowest tier, in the
\* order drop, P/E, debt/equity, ROE, margin whatever the points.
C11_ReasonsInBucketOrder ==
    probe.evaluated =>
        LET pts == BucketPoints(probe.stock, probe.prefs)
            awarded == {k \in 1..5 : pts[k] > 0}
            rs == probe.reasons
        IN /\ Len(rs) = Cardinality(awarded)
           /\ \A i \in 1..Len(rs) : ReasonBucket(rs[i]) \in awarded
           /\ \A i, j \in 1..Len(rs) :
                i < j => ReasonBucket(rs[i]) < ReasonBucket(rs[j])

\* All five buckets awarded, the drop bucket fewer points than the P/E
\* bucket after it.
C11_Witness ==
    /\ probe.evaluated
    /\ Len(probe.reasons) = 5
    /\ BucketPoints(probe.stock, probe.prefs)[1]
         < BucketPoints(probe.stock, probe.prefs)[2]


-----------------------------------------------------------------------------
(* Claims about the opportunity finder (SpecFinder)                        *)

\* The opportunities of the scan loop, in scan order, before the sort.
ScanOrderOf(p) == ScanAll(QueryStocks(cache, p.universe), p.prefs)

\* The place the claim gives the i-th scanned opportunity: after every
\* opportunity of higher score and after the earlier ones of equal score.
StableRank(L, i) ==
    1 + Cardinality({j \in 1..Len(L) : L[j].score > L[i].score})
      + Cardinality({j \in 1..(i - 1) : L[j].score = L[i].score})

\* C12: find_top_opportunities(prefs, limit) is the first min(limit, n)
\* entries of the opportunities sorted by score descending, opportunities of
\* equal score keeping their scan order.
C12_TopIsStableSortedPrefix ==
    probe.scanned =>
        LET L == ScanOrderOf(probe)
            m == IF Len(L) < probe.limit THEN Len(L) ELSE probe.limit
        IN /\ Len(probe.top) = m
           /\ \A i \in 1..Len(L) :
                StableRank(L, i) <= m => probe.top[StableRank(L, i)] = L[i]

\* A truncated list holding two opportunities of equal score.
C12_Witness ==
    /\ probe.scanned
    /\ Len(ScanOrderOf(probe)) > probe.limit
    /\ \E k \in 1..(Len(probe.top) - 1) :
            probe.top[k].score = probe.top[k + 1].score


\* The universe the enabled types and industries give, before any fallback:
\* every ticker of each enabled non-equity type, and the stocks of the
\* enabled industries (every stock when no industry is enabled) when Stocks
\* is enabled.
NonEquityTypes == {"ETFs", "Commodities", "Crypto"}
StatedEquities(prefs) ==
    IF "Stocks" \notin prefs.investment_types THEN {}
    ELSE IF prefs.favorite_industries = {} THEN get_all_stocks
    ELSE UNION {STOCKS_BY_SECTOR[i] :
                    i \in prefs.favorite_industries \cap INDUSTRIES}
DerivedUniverse(prefs) ==
    StatedEquities(prefs)
        \cup UNION {get_tickers_by_investment_type(ty) :
                        ty \in prefs.investment_types \cap NonEquityTypes}
UniverseAsStated(p) ==
    /\ \A ty \in p.prefs.investment_types \cap NonEquityTypes :
            get_tickers_by_investment_type(ty) \subseteq p.universe
    /\ "Stocks" \in p.prefs.investment_types =>
            p.universe \cap get_all_stocks = StatedEquities(p.prefs)

ScannedEtfs(p) == {t \in MAJOR_ETFS \cap p.universe : HasRow(cache, t)}
FoundTickers(p) == {p.found[i].ticker : i \in 1..Len(p.found)}

\* C15: with prefer_stocks_over_etfs set, no ETF whose drop is below
\* etf_min_drop is in the output, even one that passes the general filter;
\* with it unset, an ETF is in the output exactly when it passes the general
\* filter.
C15_EtfThreshold ==
    probe.scanned =>
        \A t \in ScannedEtfs(probe) :
            LET mc == meets_criteria(cache[t], probe.prefs)
            IN IF probe.prefs.prefer_stocks_over_etfs
               THEN mc.drop < probe.prefs.etf_min_drop
                        => t \notin FoundTickers(probe)
               ELSE t \in FoundTickers(probe) <=> mc.passes

\* An ETF 12% below its high passes a 10% filter and is left out under a 15%
\* ETF threshold.
C15_Witness ==
    /\ probe.scanned
    /\ probe.prefs.prefer_stocks_over_etfs
    /\ probe.prefs.etf_min_drop = 15
    /\ \E t \in ScannedEtfs(probe) :
            LET mc == meets_criteria(cache[t], probe.prefs)
            IN mc.passes /\ mc.drop = 12 /\ t \notin FoundTickers(probe)


-----------------------------------------------------------------------------
(* Claims about the refresh of snapshots (SpecRefresh)                     *)

SetOf(seq) == {seq[i] : i \in 1..Len(seq)}
NoDuplicates(seq) == Cardinality(SetOf(seq)) = Len(seq)

\* The requested tickers without a snapshot, or with one whose age exceeded
\* the maximum age, when the run started.
DueAtStart(p) ==
    {t \in SetOf(p.requested) :
        \/ p.before[t] = NoRow
        \/ p.at - p.before[t].last_updated > p.max_age}

\* The tickers whose snapshot the run wrote.
Written(p) == {t \in Tickers : cache[t] # p.before[t]}

\* C16: refresh_stale_stocks calls the provider for a requested ticker
\* exactly when the ticker has no snapshot or its snapshot is older than the
\* maximum age, at most once per ticker in a run, and returns exactly the
\* tickers whose snapshot was written.
C16_RefreshesExactlyTheStale ==
    (probe.ran /\ probe.entry # "refresh_all_stocks") =>
        /\ SetOf(probe.calls) = DueAtStart(probe)
        /\ NoDuplicates(probe.calls)
        /\ SetOf(probe.updated) = Written(probe)
        /\ NoDuplicates(probe.updated)

\* Maximum age 4 hours: a snapshot 5 hours old is refreshed, one 1 hour old
\* is not.
C16_Witness ==
    /\ probe.ran
    /\ probe.max_age = 4
    /\ \E t \in SetOf(probe.calls) :
            /\ probe.before[t] # NoRow
            /\ probe.at - probe.before[t].last_updated = 5
            /\ t \in SetOf(probe.updated)
    /\ \E t \in SetOf(probe.requested) \ SetOf(probe.calls) :
            probe.at - probe.before[t].last_updated = 1


\* The entry points that start a refresh run.
RefreshEntryPoints ==
    {"run_market_scan", "refresh_market_data", "refresh_stock_data",
     "refresh_all_stocks"}

\* C17: every refresh run, from any entry point (cron scan, refresh
\* endpoint, hourly scheduler job, refresh_all_stocks), makes at most the
\* per-run cap of provider calls, however many tickers are tracked or stale.
C17_RunsWithinTheCap ==
    (probe.ran /\ probe.entry \in RefreshEntryPoints)
        => Len(probe.calls) <= REFRESH_LIMIT


\* The provider call for the ticker failed or gave no usable price.
Unusable(answer) ==
    \/ answer.kind = "error"
    \/ answer.kind = "fast" /\ ~Truthy(answer.last_price)
    \/ /\ answer.kind = "info"
       /\ ~Truthy(answer.currentPrice)
       /\ ~Truthy(answer.regularMarketPrice)

\* C18: when the provider call for a ticker fails or returns no usable
\* price, the stored snapshot of the ticker (every field and its timestamp,
\* or its absence) is left as it was, and the tickers after it in the run
\* are still processed.
C18_FailedCallLeavesSnapshot ==
    probe.ran =>
        /\ \A t \in SetOf(probe.calls) :
                Unusable(probe.answers[t]) => cache[t] = probe.before[t]
        /\ probe.entry # "refresh_all_stocks"
                => DueAtStart(probe) \subseteq SetOf(probe.calls)


Fresh(t) == HasRow(cache, t) /\ ~IsStale(cache, t, now, 24)

\* C19: under repeated cron scans with a provider that succeeds in the end,
\* every tracked ticker eventually has a fresh snapshot: none is starved by
\* the per-run cap.
C19_EveryTrackedTickerRefreshed ==
    \A t \in SetOf(TrackedTickers) : <>Fresh(t)


-----------------------------------------------------------------------------
(* Claims about failures inside a trigger run (SpecFaults)                 *)

\* What a run did for a user: the records and the texts it added for them.
RowsFor(log, u) == {log[i] : i \in {j \in 1..Len(log) : log[j].user_id = u}}
TextsFor(box, u) == {box[i] : i \in TextsTo(box, u)}

\* The tables the same run leaves when nothing raises.
Unfaulted(p) ==
    CASE p.trigger = "realtime" ->
            scan_and_alert_realtime(p.before, p.uids, users, cache, p.at)
      [] p.trigger = "daily" ->
            send_daily_digest(p.before, p.uids, users, cache, p.at)
      [] p.trigger = "weekly" ->
            send_weekly_digest(p.before, p.uids, users, cache, p.at)
      [] OTHER -> run_market_scan(p.before, p.uids, users, cache, p.at)

\* The users the run reaches after the user of the fault.
UsersAfter(p) ==
    {p.uids[j] : j \in {k \in 1..Len(p.uids) :
                            \E i \in 1..(k - 1) : p.uids[i] = p.fault.uid}}

\* C20: in every trigger run, a failure while finding and scoring, sending,
\* or committing for one user does not abort the run: the users after that
\* user are processed as in a run without the failure.
C20_FailureDoesNotAbortTheRun ==
    probe.ran =>
        \A u \in UsersAfter(probe) :
            /\ RowsFor(alerts, u) = RowsFor(Unfaulted(probe).alerts, u)
            /\ TextsFor(outbox, u) = TextsFor(Unfaulted(probe).outbox, u)


-----------------------------------------------------------------------------
(* Claims about the tables as a whole (Spec)                               *)

\* C21: the alerts table is append-only: in every step of every operation
\* the rows that exist stay, in place, with their user, ticker, score,
\* message and sent-at unchanged; a step can only add rows after them.
C21_AlertsAppendOnly ==
    [][/\ Len(alerts') >= Len(alerts)
       /\ \A i \in 1..Len(alerts) : alerts'[i] = alerts[i]]_vars

\* A row was added on a later day than a row still in the table.
C21_Witness ==
    \E i, j \in 1..Len(alerts) :
        i < j /\ Today(alerts[i].sent_at) < Today(alerts[j].sent_at)


-----------------------------------------------------------------------------
(* Further claims about the opportunity finder (SpecFinder)                *)

\* The snapshot's weekly change is known and is not a drop of at least
\* min_weekly_drop.
NotAFreshDrop(stock) ==
    /\ ~IsNone(stock.weekly_change)
    /\ Val(stock.weekly_change) > 0 - BUFFETT_DEFAULTS.min_weekly_drop

\* C22: the finder applies a freshness filter of its own (weekly drop of at
\* least 5%): no snapshot whose weekly change is not such a drop is returned
\* as an opportunity, and find_opportunities completes with a list whenever
\* the universe has cached snapshots.
C22_WeeklyFreshnessFilter ==
    probe.scanned =>
        /\ ~probe.raised
        /\ \A i \in 1..Len(probe.found) : ~NotAFreshDrop(probe.found[i].stock)


\* The hard cutoffs of the preference row, as stated.
WithinCutoffs(stock, prefs) ==
    /\ ~IsNone(stock.last_price)
    /\ ~IsNone(stock.fifty_two_week_high)
    /\ (Val(stock.fifty_two_week_high) - Val(stock.last_price)) * 100
          >= prefs.min_drop_threshold * Val(stock.fifty_two_week_high)
    /\ ~IsNone(stock.pe_ratio) => Val(stock.pe_ratio) <= prefs.max_pe
    /\ ~IsNone(stock.debt_to_equity) =>
          Val(stock.debt_to_equity) <= prefs.max_debt_equity
    /\ ~IsNone(stock.roe) => Val(stock.roe) >= prefs.min_roe

\* C27: every opportunity find_opportunities returns is within the hard
\* cutoffs of the preference row; so it scores at least 15, has a reason,
\* and its first reason is the one of the drop from the 52-week high.
C27_ReturnedWithinCutoffs ==
    probe.scanned =>
        \A i \in 1..Len(probe.found) :
            LET opp == probe.found[i] IN
            /\ WithinCutoffs(opp.stock, probe.prefs)
            /\ opp.score >= 15
            /\ opp.reasons # << >>
            /\ ReasonBucket(Head(opp.reasons)) = 1

\* A scan returned an opportunity of the lowest drop tier and turned down
\* a cached snapshot of the universe.
C27_Witness ==
    /\ probe.scanned
    /\ \E i \in 1..Len(probe.found) : Head(probe.found[i].reasons) = "drop"
    /\ \E t \in probe.universe :
          /\ cache[t] # NoRow
          /\ \A i \in 1..Len(probe.found) : probe.found[i].ticker # t


-----------------------------------------------------------------------------
(* Further claims about failures inside a trigger run (SpecFaults)         *)

\* The users the run reached before the user of the fault.
UsersBefore(p) ==
    {p.uids[j] : j \in {k \in 1..Len(p.uids) :
                            \E i \in (k + 1)..Len(p.uids) :
                                p.uids[i] = p.fault.uid}}

\* C23: in every trigger run a user's record is committed before the next
\* user is scanned: a failure while processing a later user leaves the
\* earlier users with the texts and the records of a run without failure.
C23_EarlierRecordsSurvive ==
    probe.ran =>
        \A u \in UsersBefore(probe) :
            /\ TextsFor(outbox, u) = TextsFor(Unfaulted(probe).outbox, u)
            /\ RowsFor(alerts, u) = RowsFor(Unfaulted(probe).alerts, u)


-----------------------------------------------------------------------------
(* The text bench: one message through send_sms, with the transport        *)
(* configured or not, accepting the message or refusing it.                *)

\* Message lengths around the limit.
SmsLengths ==
    {0, 1, 3, SMS_KEPT - 1, SMS_KEPT, SMS_KEPT + 1, SMS_LIMIT - 1, SMS_LIMIT,
     SMS_LIMIT + 1, SMS_LIMIT + 2, SMS_LIMIT + 3, SMS_LIMIT + 100}

\* Letters only; dots only; a letter, a dot and a blank in turn.
SmsPatterns ==
    {<<"a">>, <<".">>, <<"a", ".", " ">>}

SmsMessages ==
    {[i \in 1..n |-> p[((i - 1) % Len(p)) + 1]] :
        n \in SmsLengths, p \in SmsPatterns}

NotSent(message, configured, accepts) ==
    [sent |-> FALSE, message |-> message, configured |-> configured,
     accepts |-> accepts, handed |-> << >>, sid |-> None]

InitSms ==
    /\ users = [u \in 1..NumUsers |-> NoUser]
    /\ cache = [t \in Tickers |-> NoRow]
    /\ alerts = << >>
    /\ outbox = << >>
    /\ now = 0
    /\ probe \in {NotSent(m, c, a) :
                    m \in SmsMessages, c \in BOOLEAN, a \in BOOLEAN}

SendSms ==
    /\ ~probe.sent
    /\ \E out \in {send_sms(probe.configured, probe.accepts, probe.message)} :
          probe' = [probe EXCEPT !.sent = TRUE, !.handed = out.handed,
                                 !.sid = out.sid]
    /\ UNCHANGED <<users, cache, alerts, outbox, now>>

NextSms == SendSms

SpecSms == InitSms /\ [][NextSms]_vars

\* C26: every text send_sms hands to the transport has at most 1600
\* characters: a message longer than 1600 is handed over as its first 1597
\* characters followed by "...", a message of at most 1600 unchanged.
C26_TruncatedToLimit ==
    (probe.sent /\ probe.handed # << >>) =>
        LET message == probe.message
            body == probe.handed[1]
        IN /\ Len(body) <= 1600
           /\ Len(message) > 1600 =>
                 /\ Len(body) = 1600
                 /\ \A i \in 1..1597 : body[i] = message[i]
                 /\ \A i \in 1598..1600 : body[i] = "."
           /\ Len(message) <= 1600 => body = message

\* A message of letters longer than the limit was handed over cut, and so
\* differs from what the caller passed.
C26_Witness ==
    /\ probe.sent
    /\ probe.handed # << >>
    /\ Len(probe.message) > 1600
    /\ probe.message[1600] = "a"
    /\ probe.handed[1] # probe.message

-----------------------------------------------------------------------------
(* Who writes which table (Spec)                                           *)

\* The refresh with which POST /api/cron/scan begins.
ScanRefresh ==
    refresh_stale_stocks(cache,
                         FirstN(ListOf(get_all_stocks \cup MAJOR_ETFS),
                                REFRESH_LIMIT),
                         Quotes, now, 24)

\* C24: the realtime, daily and weekly triggers (and the finder they call)
\* leave the snapshots as they were; the refresh job leaves the alert log
\* and the preference rows as they were; snapshots change only in a step
\* that ran a refresh, and to what that refresh wrote; the alert log
\* changes only in a trigger run.
C24_SingleWriterFrame ==
    [][/\ cache' # cache =>
            \/ /\ RefreshStockData
               /\ alerts' = alerts /\ users' = users /\ outbox' = outbox
            \/ /\ RunMarketScan
               /\ cache' = ScanRefresh
       /\ alerts' # alerts =>
            \/ /\ (ScanAndAlertRealtime \/ SendDailyDigest
                    \/ SendWeeklyDigest)
               /\ cache' = cache
            \/ RunMarketScan]_vars

\* The refresh job has written snapshots the cron scan does not reach, and
\* a realtime tick and a cron scan have each appended a record.
C24_Witness ==
    /\ cache["UNH"] # NoRow
    /\ Len(alerts) > 1
    /\ \E i \in 1..Len(outbox) : outbox[i].kind = "realtime"
    /\ \E i \in 1..Len(outbox) : outbox[i].kind = "corrections"


-----------------------------------------------------------------------------
(* Further claims about the refresh (SpecRefresh)                          *)

\* The provider returned data for the ticker during the run.
ReturnedData(run, t) ==
    /\ t \in SetOf(run.calls)
    /\ get_stock_data(t, run.answers[t]) # NoData

\* C25: with a clock that never goes back, no refresh operation lowers a
\* snapshot's last_updated or removes the snapshot, and last_updated is set
\* or changed only in a run in which the provider returned data for that
\* ticker.
C25_TimestampMonotone ==
    [][\A t \in Tickers :
        /\ cache[t] # NoRow =>
              /\ cache'[t] # NoRow
              /\ cache'[t].last_updated >= cache[t].last_updated
        /\ (\/ cache[t] = NoRow /\ cache'[t] # NoRow
            \/ /\ cache[t] # NoRow /\ cache'[t] # NoRow
               /\ cache'[t].last_updated # cache[t].last_updated)
              => ReturnedData(probe', t)]_vars

\* A run raised the timestamp of one snapshot and, the provider giving
\* nothing for it, left another stale snapshot with the timestamp it had.
C25_Witness ==
    /\ probe.ran
    /\ \E t \in Tickers :
          /\ probe.before[t] # NoRow
          /\ cache[t].last_updated > probe.before[t].last_updated
    /\ \E t \in SetOf(probe.calls) :
          /\ probe.before[t] # NoRow
          /\ ~ReturnedData(probe, t)
          /\ cache[t].last_updated = probe.before[t].last_updated



\* C29: a refresh that got data for a ticker leaves in its snapshot the
\* values of that response and nothing of the snapshot before: price and
\* 52-week high as answered, and each fundamental as answered, null when the
\* response (fast_info) carries none.
C29_RefreshReplacesEveryField ==
    probe.ran =>
        \A t \in SetOf(probe.updated) :
            LET answer == probe.answers[t]
                row == cache[t]
            IN /\ answer.kind = "fast" =>
                    /\ row.last_price = answer.last_price
                    /\ row.fifty_two_week_high = answer.year_high
                    /\ row.pe_ratio = None
                    /\ row.roe = None
                    /\ row.debt_to_equity = None
                    /\ row.profit_margin = None
               /\ answer.kind = "info" =>
                    /\ row.last_price
                          = OrElse(answer.currentPrice,
                                   answer.regularMarketPrice)
                    /\ row.fifty_two_week_high = answer.fiftyTwoWeekHigh
                    /\ row.pe_ratio = answer.trailingPE
                    /\ row.roe = answer.returnOnEquity
                    /\ row.debt_to_equity
                          = _convert_debt_equity(answer.debtToEquity)
                    /\ row.profit_margin = answer.profitMargins

\* A snapshot that held fundamentals was refreshed from an answer with
\* price and range only, and holds none now.
C29_Witness ==
    /\ probe.ran
    /\ \E t \in SetOf(probe.updated) :
          /\ probe.answers[t].kind = "fast"
          /\ probe.before[t] # NoRow
          /\ probe.before[t].pe_ratio # None
          /\ probe.before[t].roe # None
          /\ cache[t].pe_ratio = None
          /\ cache[t].last_price # probe.before[t].last_price

-----------------------------------------------------------------------------
(* Further claims about failures of delivery (SpecFaults)                  *)

\* The run was a realtime tick, and the user has a record of the ticker
\* dated that day in the table the tick found.
RecordedThatDay(p, u, ticker) ==
    /\ p.ran
    /\ p.trigger = "realtime"
    /\ u \in SetOf(p.uids)
    /\ AlreadyAlertedToday(p.before.alerts, u, ticker, p.at)

\* C28: in all four bands the record is written whether or not the
\* transport took the text: a run in which send returned no delivery id for
\* a user leaves the records of the same run with every text delivered; and
\* a realtime tick adds no record and sends no text for a (user, ticker)
\* that has a record of that day, delivered or not.
C28_RecordedDespiteRefusal ==
    /\ (probe.ran /\ probe.fault.step = "refused") =>
          alerts = Unfaulted(probe).alerts
    /\ \A u \in 1..NumUsers, ticker \in Tickers :
          RecordedThatDay(probe, u, ticker) =>
              /\ \A i \in (Len(probe.before.alerts) + 1)..Len(alerts) :
                    ~(alerts[i].user_id = u /\ alerts[i].ticker = ticker)
              /\ \A i \in (Len(probe.before.outbox) + 1)..Len(outbox) :
                    ~(outbox[i].to = u /\ outbox[i].tickers = <<ticker>>)

\* A realtime tick found, for one of its users, a record of that day whose
\* text the transport had not taken, and left the user without a text.
C28_Witness ==
    /\ probe.ran
    /\ probe.trigger = "realtime"
    /\ probe.fault = NoFault
    /\ \E i \in 1..Len(probe.before.alerts) :
          LET row == probe.before.alerts[i] IN
          /\ RecordedThatDay(probe, row.user_id, row.ticker)
          /\ Today(row.sent_at) = Today(probe.at)
          /\ TextsFor(outbox, row.user_id) = {}


-----------------------------------------------------------------------------
(* Further claims about the realtime tick (SpecFaults)                     *)

\* What the run added to the table and to the texts for user u.
RowsAddedFor(p, u) ==
    {i \in (Len(p.before.alerts) + 1)..Len(alerts) : alerts[i].user_id = u}
TextsAddedFor(p, u) ==
    {i \in (Len(p.before.outbox) + 1)..Len(outbox) : outbox[i].to = u}

\* C30: one realtime tick sends a user at most one alert and adds at most
\* one record for the user, both for the user's best opportunity; when that
\* ticker has a record of the day the user gets nothing, whatever else the
\* finder returned.
C30_RealtimeTopOneOnly ==
    (probe.ran /\ probe.trigger = "realtime") =>
        \A u \in 1..NumUsers :
            LET found == find_opportunities(cache, users[u].prefs) IN
            /\ Cardinality(RowsAddedFor(probe, u)) <= 1
            /\ Cardinality(TextsAddedFor(probe, u)) <= 1
            /\ \A i \in RowsAddedFor(probe, u) :
                  found # << >> /\ alerts[i].ticker = found[1].ticker
            /\ \A i \in TextsAddedFor(probe, u) :
                  found # << >> /\ outbox[i].tickers = <<found[1].ticker>>
            /\ (/\ found # << >>
                /\ AlreadyAlertedToday(probe.before.alerts, u,
                                       found[1].ticker, probe.at))
                  => /\ RowsAddedFor(probe, u) = {}
                     /\ TextsAddedFor(probe, u) = {}

\* A tick without failure left a user with several opportunities without
\* text or record, the best one having a record of the day; and a tick gave
\* a user with several opportunities one text and one record.
C30_Witness ==
    /\ probe.ran
    /\ probe.trigger = "realtime"
    /\ probe.fault = NoFault
    /\ \E u \in SetOf(probe.uids) :
          LET found == find_opportunities(cache, users[u].prefs) IN
          /\ Len(found) > 1
          /\ AlreadyAlertedToday(probe.before.alerts, u, found[1].ticker,
                                 probe.at)
          /\ ~AlreadyAlertedToday(alerts, u, found[2].ticker, probe.at)
          /\ RowsAddedFor(probe, u) = {}
          /\ TextsAddedFor(probe, u) = {}
          /\ TextsFor(outbox, u) # {}

====
